---- MODULE Spec2Model ----
(***************************************************************************)
(* Model of the ECG monitor of src/plot.py (class ECGApp): the playback    *)
(* driver (load_data, toggle_playback, update_plot, reset_simulation,      *)
(* update_speed_value), the component detector (detect_ecg_components) and *)
(* the heart-rate estimator (calculate_heart_rate, _simple_hr_calculation).*)
(*                                                                         *)
(* Units: time is in milliseconds and voltage in tenths of a millivolt, so *)
(* that 0.3 s = 300, 2.0 s = 2000 and the height 0.5 mV = 5.  Arithmetic   *)
(* is exact (the floating point rounding of the program is not modelled). *)
(* Indices into lists are the 0-based indices of the Python code; At(s, i) *)
(* reads one.                                                              *)
(***************************************************************************)
EXTENDS Integers, Sequences, FiniteSets, TLC

VARIABLES
    disk,            \* the CSV files that exist and can be opened
    SCIPY_AVAILABLE, \* module flag set by the import at start-up
    filter,          \* how the band-pass filtering step behaves in this run
    df,              \* the loaded source file (result of pd.read_csv)
    time_data,       \* self.time_data: timestamps played so far
    ecg_data,        \* self.ecg_data: voltages played so far
    current_index,   \* self.current_index: cursor into df
    is_playing,      \* self.is_playing
    data_increment,  \* self.data_increment: rows appended per tick
    heart_rate,      \* self.heart_rate
    hr_display,      \* text of self.hr_display: "--" or a number
    status_label,    \* text of self.status_label
    labels,          \* self.labels[w]['pos'] for w in P, Q, R, S, T
    interval_text,   \* the three values shown by self.interval_text
    total_duration,  \* self.total_duration
    pending,         \* number of update_plot callbacks scheduled by master.after
    cycle,           \* what detect_ecg_components did in the last tick
    hr_cycle,        \* what calculate_heart_rate did in the last tick
    generated        \* what the last run of the script generate.py did

vars == <<disk, SCIPY_AVAILABLE, filter, df, time_data, ecg_data, current_index, is_playing,
          data_increment, heart_rate, hr_display, status_label, labels,
          interval_text, total_duration, pending, cycle, hr_cycle, generated>>

-----------------------------------------------------------------------------
(* Bounds of the model *)

\* cap on the number of timer callbacks that may be scheduled at once
MaxPending == 2

\* number of silent samples appended to every source file of the family
TailPad == 0

-----------------------------------------------------------------------------
(* Program constants *)

\* sampling_rate = 500 (hard-coded in the detector and in the estimator)
sampling_rate == 500

\* data_window = 2 seconds analysed by detect_ecg_components
data_window == 2

\* window_size = 10 seconds analysed by calculate_heart_rate
hr_window_size == 10

\* update_plot runs the analysis only when len(ecg_data) > 100
MinAnalysisLen == 100

\* detect_ecg_components returns when len(ecg_data) < 200
MinDetectLen == 200

\* find_peaks(recent_data, height=0.5, ...), in tenths of a millivolt
DetectHeight == 5

\* self.data_increment = 6 set by the constructor
InitialIncrement == 6

\* fs = 500, the sampling frequency of generate.py
fs == 500

\* Texts and optional values: an absent position (None), the text "--" and
\* the text "---" are the empty tuple; a number n that is shown is <<n>>.
None == <<>>
Dashes == <<>>
Undetermined == <<>>
Num(n) == <<n>>
Waves == {"P", "Q", "R", "S", "T"}

-----------------------------------------------------------------------------
(* Python helpers *)

At(s, i) == s[i + 1]

Max2(a, b) == IF a > b THEN a ELSE b
Min2(a, b) == IF a < b THEN a ELSE b

\* s[-k:] for k >= 1
LastK(s, k) == IF Len(s) > k THEN SubSeq(s, Len(s) - k + 1, Len(s)) ELSE s

\* s[a:b] for 0 <= a, b <= len(s)
Slice(s, a, b) == IF a < b THEN SubSeq(s, a + 1, b) ELSE <<>>

RECURSIVE SumRange(_, _, _)
SumRange(s, lo, hi) ==
    IF lo > hi THEN 0
    ELSE IF lo = hi THEN s[lo]
    ELSE LET mid == (lo + hi) \div 2
         IN  SumRange(s, lo, mid) + SumRange(s, mid + 1, hi)

\* the elements of a finite set of integers in increasing order
RECURSIVE SortedSeq(_)
SortedSeq(S) ==
    IF S = {} THEN <<>>
    ELSE LET m == CHOOSE x \in S : \A y \in S : x <= y
         IN  <<m>> \o SortedSeq(S \ {m})

\* the sum of f[i] over the indices i of the finite set S
RECURSIVE SumOver(_, _)
SumOver(f, S) ==
    IF S = {} THEN 0
    ELSE LET i == CHOOSE j \in S : TRUE
         IN  f[i] + SumOver(f, S \ {i})

\* np.sum(s) and np.sum(s ** 2); the zero entries add nothing and are skipped
Sum(s) == SumOver(s, {i \in 1..Len(s) : s[i] # 0})

SumSq(s) == SumOver([i \in 1..Len(s) |-> s[i] * s[i]], {i \in 1..Len(s) : s[i] # 0})

\* the set of the values of s
Values(s) == {s[i] : i \in 1..Len(s)}

\* np.argmax(seg): index of the first maximum
ArgMax(seg) ==
    CHOOSE i \in 0..(Len(seg) - 1) :
        /\ \A j \in 0..(Len(seg) - 1) : At(seg, j) <= At(seg, i)
        /\ \A j \in 0..(i - 1) : At(seg, j) < At(seg, i)

\* np.argmin(seg): index of the first minimum
ArgMin(seg) ==
    CHOOSE i \in 0..(Len(seg) - 1) :
        /\ \A j \in 0..(Len(seg) - 1) : At(seg, j) >= At(seg, i)
        /\ \A j \in 0..(i - 1) : At(seg, j) > At(seg, i)

-----------------------------------------------------------------------------
(* Source files: what pd.read_csv returns.  A file is described by its     *)
(* length n, its sample spacing dt (ms), the sample indices of its R waves,*)
(* the amplitudes of the R, P and T waves, the offsets of the P and T waves *)
(* from R, and the index (0 = none) at which its time column steps back by *)
(* `back` samples.  A file written by generate.py also carries the heart   *)
(* rate hr and the duration in seconds it was generated with (0 otherwise);*)
(* its time column is np.linspace(0, seconds, n).  cols is the number of   *)
(* columns pd.read_csv finds: 0 for an empty file, which it cannot parse.  *)

SourceFiles ==
    { [name |-> "clean",  n |-> 500,  dt |-> 2, beats |-> <<120, 470>>,
       amp |-> 10, pAmp |-> 1, pOff |-> 25, tOff |-> 100, tAmp |-> 4, glitchAt |-> 0, back |-> 0, hr |-> 0, seconds |-> 0, cols |-> 2],
      [name |-> "khz",    n |-> 250,  dt |-> 1, beats |-> <<20, 240>>,
       amp |-> 10, pAmp |-> 2, pOff |-> 60, tOff |-> 65, tAmp |-> 4, glitchAt |-> 0, back |-> 0, hr |-> 0, seconds |-> 0, cols |-> 2],
      [name |-> "rate250", n |-> 300, dt |-> 4, beats |-> <<30, 290>>,
       amp |-> 8,  pAmp |-> 2, pOff |-> 60, tOff |-> 149, tAmp |-> 4, glitchAt |-> 0, back |-> 0, hr |-> 0, seconds |-> 0, cols |-> 2],
      [name |-> "glitch", n |-> 120,  dt |-> 2, beats |-> <<70>>,
       amp |-> 10, pAmp |-> 2, pOff |-> 60, tOff |-> 65,  tAmp |-> 4, glitchAt |-> 50, back |-> 2, hr |-> 0, seconds |-> 0, cols |-> 2],
      [name |-> "early",  n |-> 1040, dt |-> 2, beats |-> <<27, 240>>,
       amp |-> 10, pAmp |-> 2, pOff |-> 60, tOff |-> 65,  tAmp |-> 4, glitchAt |-> 0, back |-> 0, hr |-> 0, seconds |-> 0, cols |-> 2],
      [name |-> "slow",   n |-> 1225, dt |-> 2, beats |-> <<10, 1015, 1220>>,
       amp |-> 10, pAmp |-> 0, pOff |-> 60, tOff |-> 100, tAmp |-> 4, glitchAt |-> 0, back |-> 0, hr |-> 0, seconds |-> 0, cols |-> 2],
      [name |-> "flat",   n |-> 204,  dt |-> 10, beats |-> <<>>,
       amp |-> 10, pAmp |-> 0, pOff |-> 60, tOff |-> 100, tAmp |-> 4, glitchAt |-> 0, back |-> 0, hr |-> 0, seconds |-> 0, cols |-> 2],
      [name |-> "restart", n |-> 500, dt |-> 2, beats |-> <<120, 470>>,
       amp |-> 10, pAmp |-> 2, pOff |-> 60, tOff |-> 100, tAmp |-> 4, glitchAt |-> 100, back |-> 60, hr |-> 0, seconds |-> 0, cols |-> 2],
      [name |-> "onecol", n |-> 3,    dt |-> 2, beats |-> <<>>,
       amp |-> 10, pAmp |-> 0, pOff |-> 60, tOff |-> 100, tAmp |-> 4, glitchAt |-> 0, back |-> 0, hr |-> 0, seconds |-> 0, cols |-> 1],
      [name |-> "norows", n |-> 0,    dt |-> 2, beats |-> <<>>,
       amp |-> 10, pAmp |-> 0, pOff |-> 60, tOff |-> 100, tAmp |-> 4, glitchAt |-> 0, back |-> 0, hr |-> 0, seconds |-> 0, cols |-> 2],
      [name |-> "empty",  n |-> 0,    dt |-> 2, beats |-> <<>>,
       amp |-> 10, pAmp |-> 0, pOff |-> 60, tOff |-> 100, tAmp |-> 4, glitchAt |-> 0, back |-> 0, hr |-> 0, seconds |-> 0, cols |-> 0] }

\* one heartbeat of the synthetic waveform, k samples after its R wave
Beat(f, k) ==
    IF k = 0 - f.pOff THEN f.pAmp
    ELSE IF k = -10 THEN -1
    ELSE IF k = 0 THEN f.amp
    ELSE IF k = 10 THEN -2
    ELSE IF k = f.tOff \/ k = f.tOff + 1 THEN f.tAmp
    ELSE 0

\* len(self.df)
DfLen(f) == IF f.n = 0 THEN 0 ELSE f.n + TailPad

\* self.df.iloc[i, 0]
DfTime(f, i) ==
    IF f.seconds > 0 THEN (i * 1000 * f.seconds) \div (f.n - 1)
    ELSE IF f.glitchAt > 0 /\ i >= f.glitchAt THEN (i - f.back) * f.dt
    ELSE i * f.dt

\* self.df.iloc[i, 1]
DfEcg(f, i) ==
    LET c == [j \in 1..Len(f.beats) |-> Beat(f, i - f.beats[j])]
    IN  SumRange(c, 1, Len(c))

\* rows df.iloc[a], ..., df.iloc[b - 1] of the time and of the voltage column
DfTimes(f, a, b) == [j \in 1..(b - a) |-> DfTime(f, a + j - 1)]
DfEcgs(f, a, b) == [j \in 1..(b - a) |-> DfEcg(f, a + j - 1)]

-----------------------------------------------------------------------------
(* generate.py: t = np.linspace(0, duration, int(fs * duration)),           *)
(* ecg_signal = synthetic_ecg(t, hr), written to synthetic_ecg_60s.csv.     *)
(* The Gaussian pulses of a beat are the deflections of Beat at the samples *)
(* nearest to their centres, with their amplitudes in tenths of a millivolt *)
(* rounded toward zero; beat starts are taken to the millisecond.           *)

NotGenerated == [ran |-> FALSE, hr |-> 0, duration |-> 0, outcome |-> "none", n |-> 0]

\* the index of the sample of t nearest to the R wave of beat k, which is
\* centred 0.22 s after beat_start = k * 60 / hr
RIndex(n, duration, hr, k) ==
    LET centre == 220 + (60000 * k) \div hr
    IN  (2 * centre * (n - 1) + 1000 * duration) \div (2000 * duration)

\* synthetic_ecg(t, hr) for t of n samples over `duration` seconds: the
\* exception it raises, or the R waves of the beats it adds
synthetic_ecg(n, duration, hr) ==
    IF hr = 0 THEN [outcome |-> "ZeroDivisionError", beats |-> <<>>]
    ELSE IF n = 0 THEN [outcome |-> "IndexError", beats |-> <<>>]
    ELSE IF hr < 0 THEN [outcome |-> "ok", beats |-> <<>>]
    ELSE [outcome |-> "ok",
          beats |-> [j \in 1..((duration * hr + 59) \div 60) |->
                        RIndex(n, duration, hr, j - 1)]]

\* one run of the script for the heart rate hr and the duration (seconds):
\* what it did and the file it wrote
generate(hr, duration) ==
    LET n == fs * duration
        ecg == IF duration < 0 THEN [outcome |-> "ValueError", beats |-> <<>>]
               ELSE synthetic_ecg(n, duration, hr)
    IN  [run |-> [ran |-> TRUE, hr |-> hr, duration |-> duration,
                  outcome |-> ecg.outcome,
                  n |-> IF ecg.outcome = "ok" THEN n ELSE 0],
         file |-> [name |-> "synthetic_ecg_60s", n |-> n, dt |-> 1000 \div fs,
                   beats |-> ecg.beats, amp |-> 10, pAmp |-> 2, pOff |-> 60,
                   tOff |-> 65, tAmp |-> 5, glitchAt |-> 0, back |-> 0, hr |-> hr,
                   seconds |-> duration, cols |-> 2]]

\* the arguments the script is run with
SynthInputs ==
    { [hr |-> 160, duration |-> 4], [hr |-> -75, duration |-> 1],
      [hr |-> 0, duration |-> 1], [hr |-> 160, duration |-> 0],
      [hr |-> 0, duration |-> 0], [hr |-> 160, duration |-> -1] }

-----------------------------------------------------------------------------
(* scipy.signal.find_peaks(x, height, distance)                            *)

RECURSIVE PlateauAhead(_, _, _)
PlateauAhead(x, i, a) ==
    IF a < Len(x) - 1 /\ At(x, a) = At(x, i) THEN PlateauAhead(x, i, a + 1) ELSE a

\* _local_maxima_1d: midpoints of the plateaus higher than both neighbours
LocalMaxima(x) ==
    LET rising == {i \in 1..(Len(x) - 2) : At(x, i - 1) < At(x, i)}
        isPeak(i) == At(x, PlateauAhead(x, i, i + 1)) < At(x, i)
    IN  {(i + PlateauAhead(x, i, i + 1) - 1) \div 2 : i \in {j \in rising : isPeak(j)}}

\* _select_by_peak_distance: peaks are visited from the highest down and
\* each kept peak removes the candidates closer than `distance`.  Peaks of
\* equal height are visited in the order of an unstable argsort, so every
\* order among them is possible: the result is the set of outcomes.  Among
\* the highest candidates every order keeps a set of peaks pairwise at least
\* `distance` apart to which none can be added, and every such set is kept
\* by some order; these sets are listed from the left: the leftmost kept
\* peak q is closer than `distance` to the leftmost candidate.
RECURSIVE SelectByPeakDistance(_, _, _, _)
SelectByPeakDistance(x, remaining, kept, distance) ==
    IF remaining = {} THEN {kept}
    ELSE LET top == {p \in remaining : \A q \in remaining : At(x, q) <= At(x, p)}
             first == CHOOSE p \in top : \A q \in top : p <= q
         IN  UNION { SelectByPeakDistance(
                        x,
                        {r \in remaining :
                            /\ r - q >= distance \/ q - r >= distance
                            /\ ~(r \in top /\ r < q)},
                        kept \cup {q},
                        distance) : q \in {t \in top : t - first < distance} }

\* the possible results of find_peaks(x, height=..., distance=...), where
\* tall is the set of the sample values that pass the height condition
find_peaks(x, tall, distance) ==
    { SortedSeq(k) : k \in SelectByPeakDistance(
                              x, {p \in LocalMaxima(x) : At(x, p) \in tall}, {}, distance) }

-----------------------------------------------------------------------------
(* detect_ecg_components                                                   *)

NoLabels == [w \in Waves |-> None]
NoIntervals == <<Undetermined, Undetermined, Undetermined>>

\* recent_time / recent_data: the last data_window * sampling_rate samples
DetectWindow(s) == LastK(s, data_window * sampling_rate)

\* int(0.2 * sampling_rate), int(0.05 * sampling_rate),
\* int(0.16 * sampling_rate), int(0.3 * sampling_rate), sampling_rate * 0.4
PBefore == (20 * sampling_rate) \div 100
QBefore == (5 * sampling_rate) \div 100
SAfter == (5 * sampling_rate) \div 100
TAfterStart == (16 * sampling_rate) \div 100
TAfterEnd == (30 * sampling_rate) \div 100
MinDistance == (4 * sampling_rate) \div 10

Pos(rt, rd, i) == <<At(rt, i), At(rd, i)>>

\* LabelP with the sample at peak1 - 0.05 s included in the P search
LabelP_EndIncluded(lbl, rt, rd, peak1) ==
    LET p_search_start == Max2(0, peak1 - PBefore)
        p_search_end == Max2(0, peak1 - QBefore + 1)
    IN  IF p_search_start < p_search_end
        THEN LET p_idx == p_search_start + ArgMax(Slice(rd, p_search_start, p_search_end))
             IN  [lbl EXCEPT !["P"] = Pos(rt, rd, p_idx)]
        ELSE lbl

\* P wave: maximum of recent_data[p_search_start:p_search_end]
LabelP(lbl, rt, rd, peak1) ==
    LET p_search_start == Max2(0, peak1 - PBefore)
        p_search_end == Max2(0, peak1 - QBefore)
    IN  IF p_search_start < p_search_end
        THEN LET p_idx == p_search_start + ArgMax(Slice(rd, p_search_start, p_search_end))
             IN  [lbl EXCEPT !["P"] = Pos(rt, rd, p_idx)]
        ELSE lbl

\* LabelQ searching only when the whole range of 0.05 s lies in the window
LabelQ_FullRangeOnly(lbl, rt, rd, peak1) ==
    LET q_search_start == peak1 - QBefore
        q_search_end == peak1
    IN  IF 0 <= q_search_start /\ q_search_start < q_search_end
        THEN LET q_idx == q_search_start + ArgMin(Slice(rd, q_search_start, q_search_end))
             IN  [lbl EXCEPT !["Q"] = Pos(rt, rd, q_idx)]
        ELSE lbl

\* Q wave: minimum of recent_data[q_search_start:q_search_end]
LabelQ(lbl, rt, rd, peak1) ==
    LET q_search_start == Max2(0, peak1 - QBefore)
        q_search_end == peak1
    IN  IF q_search_start < q_search_end
        THEN LET q_idx == q_search_start + ArgMin(Slice(rd, q_search_start, q_search_end))
             IN  [lbl EXCEPT !["Q"] = Pos(rt, rd, q_idx)]
        ELSE lbl

\* S wave: minimum of recent_data[s_search_start:s_search_end]
LabelS(lbl, rt, rd, peak1) ==
    LET s_search_start == peak1
        s_search_end == Min2(Len(rd), peak1 + SAfter)
    IN  IF s_search_start < s_search_end
        THEN LET s_idx == s_search_start + ArgMin(Slice(rd, s_search_start, s_search_end))
             IN  [lbl EXCEPT !["S"] = Pos(rt, rd, s_idx)]
        ELSE lbl

\* T wave: maximum of recent_data[t_search_start:t_search_end]
LabelT(lbl, rt, rd, peak1) ==
    LET t_search_start == peak1 + TAfterStart
        t_search_end == Min2(Len(rd), peak1 + TAfterEnd)
    IN  IF t_search_start < t_search_end /\ t_search_end < Len(rd)
        THEN LET t_idx == t_search_start + ArgMax(Slice(rd, t_search_start, t_search_end))
             IN  [lbl EXCEPT !["T"] = Pos(rt, rd, t_idx)]
        ELSE lbl

\* lines 719-763: the R label, then the P, Q, S and T searches around peak1
LabelComponents(lbl, rt, rd, peak1) ==
    LET r == [lbl EXCEPT !["R"] = Pos(rt, rd, peak1)]
    IN  LabelT(LabelS(LabelQ(LabelP(r, rt, rd, peak1), rt, rd, peak1), rt, rd, peak1),
               rt, rd, peak1)

\* (b.time - a.time) * 1000 shown with no decimals, or "---"
IntervalBetween(lbl, a, b) ==
    IF lbl[a] # None /\ lbl[b] # None THEN Num(lbl[b][1] - lbl[a][1]) ELSE Undetermined

\* IntervalsOf with the Q-T interval measured from the R wave
IntervalsOf_QTFromR(lbl) ==
    <<IntervalBetween(lbl, "P", "Q"),
      IntervalBetween(lbl, "Q", "S"),
      IntervalBetween(lbl, "R", "T")>>

\* lines 765-790: the P-R, QRS and Q-T lines of the interval text
IntervalsOf(lbl) ==
    <<IntervalBetween(lbl, "P", "Q"),
      IntervalBetween(lbl, "Q", "S"),
      IntervalBetween(lbl, "Q", "T")>>

\* the peaks find_peaks(recent_data, height=0.5, distance=sampling_rate*0.4)
\* may return on the detection window
DetectPeaks(rd) ==
    find_peaks(rd, {v \in Values(rd) : v >= DetectHeight}, MinDistance)

NoCycle == [ran |-> FALSE, lo |-> 0, n |-> 0, peaks |-> <<>>]

\* detect_ecg_components on the buffers td, ed with the labels lbl and the
\* interval text txt: the set of possible [labels, interval_text, cycle]
detect_ecg_components(scipy, td, ed, lbl, txt) ==
    IF Len(ed) < MinDetectLen \/ ~scipy
    THEN {[labels |-> lbl, interval_text |-> txt, cycle |-> NoCycle]}
    ELSE LET rt == DetectWindow(td)
             rd == DetectWindow(ed)
             done(peaks) == [ran |-> TRUE, lo |-> Len(ed) - Len(rd), n |-> Len(rd),
                             peaks |-> peaks]
         IN  { IF Len(peaks) >= 2
               THEN LET new == LabelComponents(lbl, rt, rd, peaks[1])
                    IN  [labels |-> new, interval_text |-> IntervalsOf(new),
                         cycle |-> done(peaks)]
               ELSE [labels |-> lbl, interval_text |-> txt, cycle |-> done(peaks)]
               : peaks \in DetectPeaks(rd) }

-----------------------------------------------------------------------------
(* calculate_heart_rate and _simple_hr_calculation                         *)

\* The values v of x with v >= mean(x) + (num/den) * std(x), or > when
\* strict.  With S the sum, Q the sum of squares and n the length,
\* n*v - S = n*(v - mean) and n*Q - S*S = (n*std)^2, so the comparison is
\* made on integers.
ValuesAbove(x, num, den, strict) ==
    LET n == Len(x)
        S == Sum(x)
        var == n * SumSq(x) - S * S
    IN  { v \in Values(x) :
            LET d == n * v - S
            IN  IF strict
                THEN d > 0 /\ den * den * d * d > num * num * var
                ELSE d >= 0 /\ den * den * d * d >= num * num * var }

\* How the filtering step (butter, filtfilt) may behave: it raises, or it
\* returns the signal with the deflections of magnitude below `cut` flattened.
FilterBehaviours ==
    { [raises |-> FALSE, cut |-> 0], [raises |-> FALSE, cut |-> 5],
      [raises |-> TRUE, cut |-> 0] }

\* butter(2, [5/nyquist, 20/nyquist], 'band') and filtfilt(b, a, recent_data):
\* the zero-phase IIR response is real-valued and is not computed here.  It
\* is a fixed function that the model leaves open among the behaviours
\* above: the result has the length of x, keeps the deflections of magnitude
\* >= cut and flattens the smaller ones.
filtfilt(x, cut) ==
    [i \in 1..Len(x) |-> IF x[i] >= cut \/ x[i] <= 0 - cut THEN x[i] ELSE 0]

\* np.diff(s)
Diff(s) == [j \in 1..(Len(s) - 1) |-> s[j + 1] - s[j]]

\* [rr for rr in rr_intervals if 0.3 <= rr <= 2.0]
ValidIntervals(rr_intervals) ==
    SelectSeq(rr_intervals, LAMBDA rr : 300 <= rr /\ rr <= 2000)

\* int(60 / np.mean(valid_intervals)), the intervals being in milliseconds
BpmOfIntervals(valid_intervals) ==
    (60000 * Len(valid_intervals)) \div SumRange(valid_intervals, 1, Len(valid_intervals))

\* int(60 / (np.mean(np.diff(peaks)) / sampling_rate))
BpmOfPeaks(peaks) ==
    (60 * sampling_rate * (Len(peaks) - 1)) \div SumRange(Diff(peaks), 1, Len(peaks) - 1)

HrResult(hr, disp, status) == [heart_rate |-> hr, hr_display |-> disp, status_label |-> status]

\* what one call did: the branch taken, the peaks it accepted (indices into
\* its window), the RR intervals (ms) that entered the mean, and whether a
\* BPM was computed
NoHrCycle == [ran |-> FALSE, path |-> "none", peaks |-> <<>>, used |-> <<>>,
              computed |-> FALSE]
HrCycle(path, peaks, used) ==
    [ran |-> TRUE, path |-> path, peaks |-> peaks, used |-> used,
     computed |-> Len(used) > 0]

\* index differences as milliseconds: diff / sampling_rate seconds
SamplesToMs(d) == (1000 * d) \div sampling_rate

\* lines 869-883: quality check and status of the filtered path
FilteredStatus(hr) ==
    IF 30 <= hr /\ hr <= 200
    THEN IF hr < 60 THEN HrResult(hr, Num(hr), "Status: Bradycardia")
         ELSE IF hr > 100 THEN HrResult(hr, Num(hr), "Status: Tachycardia")
         ELSE HrResult(hr, Num(hr), "Status: Normal Sinus Rhythm")
    ELSE HrResult(hr, Dashes, "Status: Invalid HR Reading")

\* SimpleStatus accepting rates from 20 BPM
SimpleStatus_LowBound20(hr) ==
    IF 20 <= hr /\ hr <= 200
    THEN IF hr < 60 THEN HrResult(hr, Num(hr), "Status: Bradycardia")
         ELSE IF hr > 100 THEN HrResult(hr, Num(hr), "Status: Tachycardia")
         ELSE HrResult(hr, Num(hr), "Status: Normal Rhythm")
    ELSE HrResult(hr, Dashes, "Status: Invalid Reading")

\* SimpleStatus calling tachycardia only above 120 BPM
SimpleStatus_Tachy120(hr) ==
    IF 30 <= hr /\ hr <= 200
    THEN IF hr < 60 THEN HrResult(hr, Num(hr), "Status: Bradycardia")
         ELSE IF hr > 120 THEN HrResult(hr, Num(hr), "Status: Tachycardia")
         ELSE HrResult(hr, Num(hr), "Status: Normal Rhythm")
    ELSE HrResult(hr, Dashes, "Status: Invalid Reading")

\* lines 930-944: quality check and status of the fallback path
SimpleStatus(hr) ==
    IF 30 <= hr /\ hr <= 200
    THEN IF hr < 60 THEN HrResult(hr, Num(hr), "Status: Bradycardia")
         ELSE IF hr > 100 THEN HrResult(hr, Num(hr), "Status: Tachycardia")
         ELSE HrResult(hr, Num(hr), "Status: Normal Rhythm")
    ELSE HrResult(hr, Dashes, "Status: Invalid Reading")

\* lines 859-862: the RR intervals of the peaks that pass the filter
RetainedIntervals(recent_time, peaks) ==
    ValidIntervals(Diff([j \in 1..Len(peaks) |-> At(recent_time, peaks[j])]))

\* lines 857-889: heart rate from the peaks of the filtered signal
FilteredHeartRate(old_hr, recent_time, peaks) ==
    IF Len(peaks) > 1
    THEN LET valid_intervals == RetainedIntervals(recent_time, peaks)
         IN  IF Len(valid_intervals) > 0
             THEN FilteredStatus(BpmOfIntervals(valid_intervals))
             ELSE HrResult(old_hr, Dashes, "Status: Calculating...")
    ELSE HrResult(old_hr, Dashes, "Status: Insufficient Data")

\* lines 911-923: the maxima of the runs of consecutive indices above the
\* threshold, each kept when more than sampling_rate * 0.4 after the last
\* kept; starts are the first indices of the runs, in increasing order
RECURSIVE GroupPeaks(_, _, _, _, _)
GroupPeaks(x, above, starts, k, peaks) ==
    IF k > Len(starts) THEN peaks
    ELSE LET i == starts[k]
             stop == CHOOSE e \in (i + 1)..Len(x) :
                        /\ \A j \in i..(e - 1) : j \in above
                        /\ e \notin above
             peak_idx == i + ArgMax(Slice(x, i, stop))
         IN  IF peaks = <<>> \/ peak_idx - peaks[Len(peaks)] > MinDistance
             THEN GroupPeaks(x, above, starts, k + 1, Append(peaks, peak_idx))
             ELSE GroupPeaks(x, above, starts, k + 1, peaks)

\* lines 908-923: threshold = mean + 1.5 * std, then the run grouping
SimplePeaks(recent_data) ==
    LET tall == ValuesAbove(recent_data, 3, 2, TRUE)
        above_threshold == {i \in 0..(Len(recent_data) - 1) : At(recent_data, i) \in tall}
        starts == SortedSeq({i \in above_threshold : i - 1 \notin above_threshold})
    IN  GroupPeaks(recent_data, above_threshold, starts, 1, <<>>)

\* simple_hr_calculation in which a peak list too short for an interval
\* raises and is reported by the except clause (lines 949-952)
simple_hr_calculation_RaisesOnFewPeaks(old_hr, recent_data) ==
    LET peaks == SimplePeaks(recent_data)
    IN  IF Len(peaks) > 1
        THEN SimpleStatus(BpmOfPeaks(peaks))
        ELSE HrResult(old_hr, Dashes, "Status: Error")

\* _simple_hr_calculation(recent_data, sampling_rate)
simple_hr_calculation(old_hr, recent_data) ==
    LET peaks == SimplePeaks(recent_data)
    IN  IF Len(peaks) > 1
        THEN SimpleStatus(BpmOfPeaks(peaks))
        ELSE HrResult(old_hr, Dashes, "Status: Calculating...")

\* the peaks find_peaks(filtered_data, height=mean + 0.5*std, distance=200)
\* may return
FilteredPeaks(filtered_data) ==
    find_peaks(filtered_data, ValuesAbove(filtered_data, 1, 2, FALSE), MinDistance)

HrWindow(s) == LastK(s, hr_window_size * sampling_rate)

\* calculate_heart_rate in which a failure of the filtering step is reported
\* as an error instead of being handed to the fallback
calculate_heart_rate_FilterErrorSurfaced(scipy, flt, td, ed, old) ==
    LET recent_data == HrWindow(ed)
        recent_time == HrWindow(td)
        simple == LET peaks == SimplePeaks(recent_data)
                  IN  [result |-> simple_hr_calculation(old.heart_rate, recent_data),
                       trace |-> HrCycle("simple", peaks,
                                    IF Len(peaks) > 1
                                    THEN [j \in 1..(Len(peaks) - 1) |->
                                             SamplesToMs(peaks[j + 1] - peaks[j])]
                                    ELSE <<>>)]
    IN  IF Len(recent_data) < MinAnalysisLen THEN {[result |-> old, trace |-> NoHrCycle]}
        ELSE IF scipy /\ flt.raises
        THEN {[result |-> HrResult(old.heart_rate, Dashes, "Status: Error"),
               trace |-> HrCycle("error", <<>>, <<>>)]}
        ELSE IF scipy
        THEN { [result |-> FilteredHeartRate(old.heart_rate, recent_time, peaks),
                trace |-> HrCycle("filtered", peaks,
                             IF Len(peaks) > 1
                             THEN RetainedIntervals(recent_time, peaks) ELSE <<>>)]
               : peaks \in FilteredPeaks(filtfilt(recent_data, flt.cut)) }
        ELSE {simple}

\* calculate_heart_rate: the set of possible [result, trace] (more than one
\* only when find_peaks meets peaks of equal height).  When the filtered
\* branch raises, the fallback runs.
calculate_heart_rate(scipy, flt, td, ed, old) ==
    LET recent_data == HrWindow(ed)
        recent_time == HrWindow(td)
        simple == LET peaks == SimplePeaks(recent_data)
                  IN  [result |-> simple_hr_calculation(old.heart_rate, recent_data),
                       trace |-> HrCycle("simple", peaks,
                                    IF Len(peaks) > 1
                                    THEN [j \in 1..(Len(peaks) - 1) |->
                                             SamplesToMs(peaks[j + 1] - peaks[j])]
                                    ELSE <<>>)]
    IN  IF Len(recent_data) < MinAnalysisLen THEN {[result |-> old, trace |-> NoHrCycle]}
        ELSE IF scipy /\ ~flt.raises
        THEN { [result |-> FilteredHeartRate(old.heart_rate, recent_time, peaks),
                trace |-> HrCycle("filtered", peaks,
                             IF Len(peaks) > 1
                             THEN RetainedIntervals(recent_time, peaks) ELSE <<>>)]
               : peaks \in FilteredPeaks(filtfilt(recent_data, flt.cut)) }
        ELSE {simple}

-----------------------------------------------------------------------------
(* The application object                                                  *)

\* the fields of self (and the timer queue of master) as one value
Self ==
    [disk |-> disk, SCIPY_AVAILABLE |-> SCIPY_AVAILABLE, filter |-> filter, df |-> df, time_data |-> time_data,
     ecg_data |-> ecg_data, current_index |-> current_index,
     is_playing |-> is_playing, data_increment |-> data_increment,
     heart_rate |-> heart_rate, hr_display |-> hr_display,
     status_label |-> status_label, labels |-> labels,
     interval_text |-> interval_text, total_duration |-> total_duration,
     pending |-> pending, cycle |-> cycle, hr_cycle |-> hr_cycle,
     generated |-> generated]

\* the next state is the object s
Becomes(s) ==
    /\ disk' = s.disk
    /\ filter' = s.filter
    /\ SCIPY_AVAILABLE' = s.SCIPY_AVAILABLE
    /\ df' = s.df
    /\ time_data' = s.time_data
    /\ ecg_data' = s.ecg_data
    /\ current_index' = s.current_index
    /\ is_playing' = s.is_playing
    /\ data_increment' = s.data_increment
    /\ heart_rate' = s.heart_rate
    /\ hr_display' = s.hr_display
    /\ status_label' = s.status_label
    /\ labels' = s.labels
    /\ interval_text' = s.interval_text
    /\ total_duration' = s.total_duration
    /\ pending' = s.pending
    /\ cycle' = s.cycle
    /\ hr_cycle' = s.hr_cycle
    /\ generated' = s.generated

\* the initial state is the object s
StartsAs(s) ==
    /\ disk = s.disk
    /\ filter = s.filter
    /\ SCIPY_AVAILABLE = s.SCIPY_AVAILABLE
    /\ df = s.df
    /\ time_data = s.time_data
    /\ ecg_data = s.ecg_data
    /\ current_index = s.current_index
    /\ is_playing = s.is_playing
    /\ data_increment = s.data_increment
    /\ heart_rate = s.heart_rate
    /\ hr_display = s.hr_display
    /\ status_label = s.status_label
    /\ labels = s.labels
    /\ interval_text = s.interval_text
    /\ total_duration = s.total_duration
    /\ pending = s.pending
    /\ cycle = s.cycle
    /\ hr_cycle = s.hr_cycle
    /\ generated = s.generated

\* setup_plot: the labels and the interval text box are created anew
setup_plot(s) ==
    [s EXCEPT !.labels = NoLabels, !.interval_text = NoIntervals]

\* the value load_data(filename) returns for the file f
LoadSucceeds(f) == f.cols >= 2 /\ DfLen(f) > 0

\* load_data(filename) reading the file f: the object after the call.
\* pd.read_csv raises on an empty file before anything is assigned; a file
\* with one column fails at df.columns[1] and a file without rows at
\* iloc[-1], after the source, the buffers and the cursor were assigned.
load_data(s, f) ==
    IF f.cols = 0 THEN s
    ELSE LET read == [s EXCEPT !.df = f, !.time_data = <<>>, !.ecg_data = <<>>,
                               !.current_index = 0,
                               !.cycle = NoCycle, !.hr_cycle = NoHrCycle]
         IN  IF LoadSucceeds(f)
             THEN setup_plot([read EXCEPT !.total_duration = DfTime(f, DfLen(f) - 1)])
             ELSE read

\* reset_simulation
reset_simulation(s) ==
    [s EXCEPT !.is_playing = FALSE, !.current_index = 0, !.time_data = <<>>,
              !.ecg_data = <<>>, !.hr_display = Dashes,
              !.status_label = "Status: Ready", !.labels = NoLabels,
              !.interval_text = NoIntervals, !.cycle = NoCycle,
              !.hr_cycle = NoHrCycle]

\* browse_file when the file f is chosen in the dialog
browse_file(s, f) ==
    IF LoadSucceeds(f) THEN reset_simulation(load_data(s, f)) ELSE load_data(s, f)

\* lines 647-650: the analysis run by update_plot on the buffers of s
Analyse(s) ==
    IF Len(s.ecg_data) > MinAnalysisLen
    THEN { [s EXCEPT !.heart_rate = hr.result.heart_rate,
                     !.hr_display = hr.result.hr_display,
                     !.status_label = hr.result.status_label,
                     !.hr_cycle = hr.trace,
                     !.labels = det.labels,
                     !.interval_text = det.interval_text, !.cycle = det.cycle]
           : hr \in calculate_heart_rate(s.SCIPY_AVAILABLE, s.filter, s.time_data,
                        s.ecg_data,
                        HrResult(s.heart_rate, s.hr_display, s.status_label)),
             det \in detect_ecg_components(s.SCIPY_AVAILABLE, s.time_data, s.ecg_data,
                        s.labels, s.interval_text) }
    ELSE {[s EXCEPT !.cycle = NoCycle, !.hr_cycle = NoHrCycle]}

\* update_plot without the test of is_playing
update_plot_IgnoresPause(s) ==
    IF s.current_index >= DfLen(s.df) THEN {s}
    ELSE IF s.df.cols < 2
    THEN {[s EXCEPT !.time_data = Append(@, DfTime(s.df, s.current_index))]}
    ELSE LET k == Min2(s.data_increment, DfLen(s.df) - s.current_index)
             appended == [s EXCEPT
                 !.time_data = @ \o DfTimes(s.df, s.current_index, s.current_index + k),
                 !.ecg_data = @ \o DfEcgs(s.df, s.current_index, s.current_index + k),
                 !.current_index = @ + k]
         IN  { IF a.current_index < DfLen(a.df)
               THEN [a EXCEPT !.pending = @ + 1]
               ELSE [a EXCEPT !.is_playing = FALSE]
               : a \in Analyse(appended) }

\* update_plot: the set of possible resulting objects.  On a source with one
\* column df.iloc[i, 1] raises after the time of row i was appended, and the
\* callback ends there.
update_plot(s) ==
    IF ~s.is_playing \/ s.current_index >= DfLen(s.df) THEN {s}
    ELSE IF s.df.cols < 2
    THEN {[s EXCEPT !.time_data = Append(@, DfTime(s.df, s.current_index))]}
    ELSE LET k == Min2(s.data_increment, DfLen(s.df) - s.current_index)
             appended == [s EXCEPT
                 !.time_data = @ \o DfTimes(s.df, s.current_index, s.current_index + k),
                 !.ecg_data = @ \o DfEcgs(s.df, s.current_index, s.current_index + k),
                 !.current_index = @ + k]
         IN  { IF a.current_index < DfLen(a.df)
               THEN [a EXCEPT !.pending = @ + 1]
               ELSE [a EXCEPT !.is_playing = FALSE]
               : a \in Analyse(appended) }

\* toggle_playback without the call of update_plot that starts the ticks
toggle_playback_NoFirstUpdate(s) ==
    IF s.is_playing THEN {[s EXCEPT !.is_playing = FALSE]}
    ELSE LET on == [s EXCEPT !.is_playing = TRUE]
         IN  {IF on.current_index >= DfLen(on.df) THEN reset_simulation(on) ELSE on}

\* toggle_playback
toggle_playback(s) ==
    IF s.is_playing THEN {[s EXCEPT !.is_playing = FALSE]}
    ELSE LET on == [s EXCEPT !.is_playing = TRUE]
         IN  update_plot(IF on.current_index >= DfLen(on.df)
                         THEN reset_simulation(on) ELSE on)

\* positions of the speed slider that are tried
SpeedValues == {12}

\* update_speed_value(value): data_increment = max(1, int(speed_factor))
update_speed_value(s, value) == [s EXCEPT !.data_increment = Max2(1, value)]

-----------------------------------------------------------------------------
(* The state machine                                                       *)

\* the object built by __init__ when the files on disk are `files`, the
\* default data file is f and the environment is (scipy, flt)
Constructed(files, f, scipy, flt) ==
    load_data(
        [disk |-> files, SCIPY_AVAILABLE |-> scipy, filter |-> flt, df |-> f,
         time_data |-> <<>>, ecg_data |-> <<>>, current_index |-> 0,
         is_playing |-> FALSE, data_increment |-> InitialIncrement,
         heart_rate |-> 0, hr_display |-> Dashes, status_label |-> "Status: Ready",
         labels |-> NoLabels, interval_text |-> NoIntervals,
         total_duration |-> 0, pending |-> 0, cycle |-> NoCycle,
         hr_cycle |-> NoHrCycle, generated |-> NotGenerated], f)

InitOn(files) ==
    \E f \in files, scipy \in BOOLEAN, flt \in FilterBehaviours :
        /\ scipy \/ flt = [raises |-> FALSE, cut |-> 0]
        /\ StartsAs(Constructed(files, f, scipy, flt))

\* recordings sampled at 500, 1000 and 250 Hz, one with a broken time column
\* and a flat line sampled at 100 Hz
ShortFiles ==
    {f \in SourceFiles : f.name \in {"clean", "khz", "rate250", "glitch", "flat"}}

Init == InitOn(ShortFiles)

\* browse_file: a file is chosen and loaded; the simulation is reset when
\* the load succeeded
BrowseFile ==
    \E f \in disk : Becomes(browse_file(Self, f))

\* the Play/Pause button.  The number of pending callbacks is capped, and so
\* is the number of times a one-column source is run into.
TogglePlayback ==
    \E s \in toggle_playback(Self) :
        s.pending <= MaxPending /\ Len(s.time_data) <= DfLen(s.df) /\ Becomes(s)

\* the Reset button
ResetSimulation == Becomes(reset_simulation(Self))

\* a callback scheduled by master.after(update_speed, update_plot) fires
Tick ==
    /\ pending > 0
    /\ \E s \in update_plot([Self EXCEPT !.pending = @ - 1]) :
           Len(s.time_data) <= DfLen(s.df) /\ Becomes(s)

\* the speed slider is moved
UpdateSpeedValue ==
    \E value \in SpeedValues :
        /\ value # data_increment
        /\ Becomes(update_speed_value(Self, value))

Next ==
    \/ BrowseFile
    \/ TogglePlayback
    \/ ResetSimulation
    \/ Tick
    \/ UpdateSpeedValue

Spec == Init /\ [][Next]_vars

\* the same program with one long recording on disk
InitEarly == InitOn({f \in SourceFiles : f.name = "early"})
SpecEarly == InitEarly /\ [][Next]_vars

InitSlow == InitOn({f \in SourceFiles : f.name = "slow"})
SpecSlow == InitSlow /\ [][Next]_vars

\* the same program with a short recording and three files that cannot be
\* loaded on disk
LoadFiles ==
    {f \in SourceFiles : f.name \in {"khz", "onecol", "norows", "empty"}}
InitLoad ==
    \E f \in {g \in LoadFiles : LoadSucceeds(g)}, scipy \in BOOLEAN :
        StartsAs(Constructed(LoadFiles, f, scipy, [raises |-> FALSE, cut |-> 0]))
SpecLoad == InitLoad /\ [][Next]_vars

\* the same program with a recording whose time column starts again, 120 ms
\* back, between the P and the Q wave of its first beat
InitRestart == InitOn({f \in SourceFiles : f.name = "restart"})
SpecRestart == InitRestart /\ [][Next]_vars

\* uninterrupted playback: the buttons and the file dialog are used only
\* while playback is stopped, the slider at any time, and a scheduled
\* callback is eventually run by the Tk main loop
NextPlay ==
    \/ ~is_playing /\ BrowseFile
    \/ ~is_playing /\ TogglePlayback
    \/ ~is_playing /\ ResetSimulation
    \/ Tick
    \/ UpdateSpeedValue

\* weak fairness of Tick, WF_vars(Tick), written with the enabling condition
\* of Tick: a callback is pending
TickFairness == []<>(pending = 0) \/ []<><<Tick>>_vars

SpecPlay == Init /\ [][NextPlay]_vars /\ TickFairness

\* generate.py is run once beside the monitor; a file it writes replaces
\* synthetic_ecg_60s.csv and can then be opened
Generate ==
    /\ ~generated.ran
    /\ \E in \in SynthInputs :
           LET g == generate(in.hr, in.duration)
           IN  Becomes([Self EXCEPT
                   !.generated = g.run,
                   !.disk = IF g.run.outcome = "ok" /\ g.run.n > 0
                            THEN {f \in @ : f.name # g.file.name} \cup {g.file}
                            ELSE @])

NextSynth ==
    \/ Generate
    \/ BrowseFile
    \/ TogglePlayback
    \/ ResetSimulation
    \/ Tick

\* the monitor started without scipy on a short recording, with the script at
\* hand; the speed slider is left alone
InitSynth ==
    \E f \in {g \in SourceFiles : g.name = "glitch"} :
        StartsAs(Constructed({f}, f, FALSE, [raises |-> FALSE, cut |-> 0]))

SpecSynth == InitSynth /\ [][NextSynth]_vars

-----------------------------------------------------------------------------
(* Properties                                                              *)

\* the windows the last tick analysed (the buffers change only in a tick)
WinTime == DetectWindow(time_data)
WinData == DetectWindow(ecg_data)
HrTime == HrWindow(time_data)

\* the first index of the set c at which x is largest / smallest
FirstMaxIn(x, c) ==
    CHOOSE i \in c : \A j \in c : At(x, j) <= At(x, i) /\ (j < i => At(x, j) < At(x, i))
FirstMinIn(x, c) ==
    CHOOSE i \in c : \A j \in c : At(x, j) >= At(x, i) /\ (j < i => At(x, j) > At(x, i))

StatusInsufficient == {"Status: Insufficient Data", "Status: Calculating..."}
StatusInvalid == {"Status: Invalid HR Reading", "Status: Invalid Reading"}
StatusNormal == {"Status: Normal Sinus Rhythm", "Status: Normal Rhythm"}

\* C1: after every detection cycle the component positions and the interval
\* text are those computed from the current analysis window alone: what the
\* cycle does not find is undetected and nothing of an earlier cycle remains.
C1_FreshLabels ==
    IF Len(cycle.peaks) >= 2
    THEN LabelComponents(NoLabels, WinTime, WinData, cycle.peaks[1])
    ELSE NoLabels
C1_StaleDiscarded ==
    cycle.ran => /\ labels = C1_FreshLabels
                 /\ interval_text = IntervalsOf(C1_FreshLabels)

\* C2: a detection cycle that accepts fewer than 2 R peaks leaves every
\* component undetected and every interval undetermined.
C2_FewPeaksAllUndetermined ==
    (cycle.ran /\ Len(cycle.peaks) < 2) =>
        (labels = NoLabels /\ interval_text = NoIntervals)

\* C3: the timestamps of the sample buffer are strictly increasing.
C3_StrictlyIncreasing ==
    \A i \in 1..(Len(time_data) - 1) : time_data[i] < time_data[i + 1]

\* C4: on both paths the BPM is that of the mean of the RR intervals of the
\* accepted peaks that lie in [0.3, 2.0] s (to within one beat per minute,
\* whatever the rounding), and with fewer than two peaks or no RR interval in
\* that range no number is shown and the status is InsufficientData.
C4_PeakTimes == [j \in 1..Len(hr_cycle.peaks) |-> At(HrTime, hr_cycle.peaks[j])]
C4_Kept == SelectSeq(Diff(C4_PeakTimes), LAMBDA rr : 300 <= rr /\ rr <= 2000)
C4_OutliersExcluded ==
    hr_cycle.ran =>
        IF Len(hr_cycle.peaks) < 2 \/ C4_Kept = <<>>
        THEN hr_display = Dashes /\ status_label \in StatusInsufficient
        ELSE LET total == SumRange(C4_Kept, 1, Len(C4_Kept))
                 beats == 60000 * Len(C4_Kept)
             IN  (heart_rate - 1) * total < beats /\ beats < (heart_rate + 1) * total

\* C5: the timestamps of consecutive R peaks accepted in one cycle of the
\* estimator differ by at least 0.4 s.
C5_MinSeparation ==
    hr_cycle.ran =>
        \A j \in 1..(Len(hr_cycle.peaks) - 1) :
            At(HrTime, hr_cycle.peaks[j + 1]) - At(HrTime, hr_cycle.peaks[j]) >= 400

\* C6: a number shown as heart rate lies in [30, 200], and a computed BPM
\* outside [30, 200] is shown as "--" with the status Invalid.
C6_ValidRange ==
    /\ hr_display # Dashes => hr_display[1] \in 30..200
    /\ hr_cycle.computed =>
         IF heart_rate \in 30..200
         THEN hr_display = Num(heart_rate)
         ELSE hr_display = Dashes /\ status_label \in StatusInvalid

\* C6 witness: a BPM below 30 was computed and the status is Invalid
C6_InvalidShown ==
    hr_cycle.computed /\ heart_rate < 30 /\ hr_display = Dashes
    /\ status_label \in StatusInvalid

\* C7: the BPM is 60 / mean(retained RR intervals) rounded to the nearest
\* integer: it is within one half of the exact quotient.
C7_RoundedToNearest ==
    hr_cycle.computed =>
        LET total == SumRange(hr_cycle.used, 1, Len(hr_cycle.used))
            beats == 60000 * Len(hr_cycle.used)
            off == heart_rate * total - beats
        IN  2 * off <= total /\ 2 * (0 - off) <= total

\* C8: a BPM b that is shown is classified Bradycardia iff b < 60,
\* Tachycardia iff b > 100 and Normal iff 60 <= b <= 100, on either path.
C8_Classification ==
    hr_display # Dashes =>
        LET b == hr_display[1]
        IN  /\ (b < 60) <=> (status_label = "Status: Bradycardia")
            /\ (b > 100) <=> (status_label = "Status: Tachycardia")
            /\ (60 <= b /\ b <= 100) <=> (status_label \in StatusNormal)

\* C8 witness: the fallback path shows a rate above 100 as Tachycardia
C8_FallbackTachycardia ==
    /\ hr_cycle.path = "simple" /\ hr_display # Dashes
    /\ hr_display[1] > 100 /\ status_label = "Status: Tachycardia"

\* C9 as claimed: with peak1 the first of at least two accepted peaks, P is
\* the maximum over the samples timed within [peak1 - 0.20 s, peak1 - 0.05 s],
\* Q the minimum within [peak1 - 0.05 s, peak1], S the minimum within
\* [peak1, peak1 + 0.05 s] and T the maximum within [peak1 + 0.16 s,
\* peak1 + 0.30 s], the end points included.
C9_Timed(lo, hi) ==
    {i \in 0..(Len(WinTime) - 1) :
        LET t1 == At(WinTime, cycle.peaks[1])
        IN  t1 + lo <= At(WinTime, i) /\ At(WinTime, i) <= t1 + hi}
C10_Shown(a, b) ==
    IF labels[a] # None /\ labels[b] # None
    THEN <<labels[b][1] - labels[a][1]>>
    ELSE Undetermined
C10_Intervals ==
    /\ interval_text[1] = C10_Shown("P", "Q")
    /\ interval_text[2] = C10_Shown("Q", "S")
    /\ interval_text[3] = C10_Shown("Q", "T")

\* C10 witness: Q, S and T were found but P was not, so that QRS and Q-T are
\* numbers and P-R is "---"
C10_PartlyDetermined ==
    /\ labels["P"] = None /\ labels["Q"] # None /\ labels["S"] # None
    /\ labels["T"] # None
    /\ interval_text[1] = Undetermined /\ interval_text[2] # Undetermined
    /\ interval_text[3] # Undetermined

\* C11: a component whose search range is empty, inverted or reaches past an
\* end of the window is undetected after the cycle.
C11_EmptyRangeUndetected ==
    (cycle.ran /\ Len(cycle.peaks) >= 2) =>
        LET p == cycle.peaks[1]
            n == Len(WinData)
        IN  /\ Max2(0, p - 100) >= Max2(0, p - 25) => labels["P"] = None
            /\ Max2(0, p - 25) >= p => labels["Q"] = None
            /\ p >= Min2(n, p + 25) => labels["S"] = None
            /\ p + 150 >= n => labels["T"] = None

\* C12: the estimator takes the peak-finding path when scipy is available
\* (and the filter works) and the threshold-grouping path otherwise, and
\* the component detector runs on every window of at least 200 samples
\* whether scipy is available or not.
C12_BothStrategiesProduce ==
    /\ hr_cycle.ran =>
         hr_cycle.path = (IF SCIPY_AVAILABLE /\ ~filter.raises THEN "filtered" ELSE "simple")
    /\ (hr_cycle.ran /\ Len(ecg_data) >= 200) => cycle.ran

\* C13: when the filtering step raises, the cycle ends with the result of
\* the unfiltered calculation on the same window and not with an error.
C13_FilterFailureFallsBack ==
    (hr_cycle.ran /\ SCIPY_AVAILABLE /\ filter.raises) =>
        /\ hr_cycle.path = "simple"
        /\ hr_cycle.peaks = SimplePeaks(HrWindow(ecg_data))
        /\ status_label \in {"Status: Bradycardia", "Status: Tachycardia",
                             "Status: Normal Rhythm", "Status: Invalid Reading",
                             "Status: Calculating..."}
        /\ IF Len(hr_cycle.peaks) > 1
           THEN heart_rate = BpmOfPeaks(hr_cycle.peaks)
           ELSE hr_display = Dashes /\ status_label = "Status: Calculating..."

\* C13 witness: with scipy present and the filter raising, a cycle showed a
\* heart rate
C13_FallbackAfterFilterError ==
    /\ hr_cycle.ran /\ SCIPY_AVAILABLE /\ filter.raises
    /\ hr_cycle.path = "simple" /\ hr_display # Dashes

\* C14: no tick ends in an error: a window with fewer than two peaks gives
\* "--" with the status InsufficientData, the status is never Error, and
\* while playing the next tick is always scheduled.
C14_NoPeaksIsAResult ==
    /\ status_label # "Status: Error"
    /\ (hr_cycle.ran /\ Len(hr_cycle.peaks) < 2) =>
           (hr_display = Dashes /\ status_label \in StatusInsufficient)
    /\ is_playing => pending > 0

\* C14 witness: both analyses ran on a constant window and found no peak
C14_ConstantWindowAnalysed ==
    /\ hr_cycle.ran /\ cycle.ran
    /\ hr_cycle.peaks = <<>> /\ cycle.peaks = <<>>
    /\ \A i \in 1..Len(ecg_data) : ecg_data[i] = ecg_data[1]
    /\ hr_display = Dashes /\ status_label \in StatusInsufficient

\* C15: the window of a cycle holds the buffered samples timed within the
\* last N seconds before the newest one and no older sample (N = 2 for the
\* detector, N = 10 for the estimator; a sample exactly N seconds old may be
\* on either side).
C15_InWindow(lo, span) ==
    LET newest == time_data[Len(time_data)]
    IN  \A i \in 0..(Len(time_data) - 1) :
            /\ At(time_data, i) > newest - span => i >= lo
            /\ At(time_data, i) < newest - span => i < lo
C15_WindowIsLastSeconds ==
    /\ cycle.ran => C15_InWindow(cycle.lo, 2000)
    /\ hr_cycle.ran => C15_InWindow(Len(time_data) - Len(HrTime), 10000)

\* C16: a step of reset_simulation leaves the buffer empty, the cursor at 0,
\* playback stopped, every component undetected, the intervals undetermined,
\* "--" on the display and no heart rate of before the reset in the driver.
C16_ResetClearsAll ==
    [][ResetSimulation =>
          /\ time_data' = <<>> /\ ecg_data' = <<>> /\ current_index' = 0
          /\ ~is_playing'
          /\ labels' = NoLabels /\ interval_text' = NoIntervals
          /\ hr_display' = Dashes /\ heart_rate' = 0]_vars

\* C17: a scheduled tick that fires while playback is paused changes neither
\* the buffer, the cursor, the component positions nor the intervals, and
\* the step that resumes playback appends exactly the rows of the source
\* that follow the cursor.
C17_PauseHaltsTicks ==
    [][/\ (~is_playing /\ pending' < pending) =>
              UNCHANGED <<time_data, ecg_data, current_index, labels, interval_text>>
       /\ (~is_playing /\ current_index' > current_index) =>
              /\ current_index' =
                     current_index + Min2(data_increment, DfLen(df) - current_index)
              /\ time_data' = time_data \o DfTimes(df, current_index, current_index')
              /\ ecg_data' = ecg_data \o DfEcgs(df, current_index, current_index')]_vars

\* C17 witness: playback was paused in the middle of the file and the tick
\* that was scheduled before the pause has fired; the buffer is the played
\* prefix
C17_PausedTickConsumed ==
    /\ ~is_playing /\ pending = 0
    /\ 0 < current_index /\ current_index < DfLen(df)
    /\ Len(time_data) = current_index

\* C18: the detection core is never invoked on the samples of a file whose
\* time column is not monotonic: such a file is not loaded.
C18_MalformedNeverAnalysed ==
    hr_cycle.ran =>
        \A i \in 1..(DfLen(df) - 1) : DfTime(df, i - 1) <= DfTime(df, i)

\* C19: the synthesizer fails for every heart rate <= 0 and yields an empty
\* sample sequence for every duration <= 0.
C19_SynthesizerEdgeCases ==
    generated.ran =>
        /\ generated.hr <= 0 =>
               generated.outcome \in {"ZeroDivisionError", "IndexError", "ValueError"}
        /\ (generated.hr > 0 /\ generated.duration <= 0) =>
               (generated.outcome = "ok" /\ generated.n = 0)

\* C20: when a waveform generated at heart rate H over at least 10 beats has
\* been played to its end, the estimator shows a number within 2 of H.
C20_RoundTrip ==
    (/\ df.hr > 0 /\ df.hr * df.seconds >= 600
     /\ current_index = DfLen(df) /\ hr_cycle.ran) =>
        /\ hr_display # Dashes
        /\ hr_display[1] - df.hr <= 2
        /\ df.hr - hr_display[1] <= 2

\* C21: there is never more than one scheduled update_plot callback.
C21_AtMostOnePending == pending <= 1

\* C22: the buffers are the played prefix of the source: both have
\* current_index entries, the cursor is within the source, and entry i is
\* row i of the source.
C22_BufferIsPlayedPrefix ==
    /\ Len(time_data) = current_index
    /\ Len(ecg_data) = current_index
    /\ 0 <= current_index /\ current_index <= DfLen(df)
    /\ \A i \in 0..(current_index - 1) :
           /\ i < Len(time_data) => At(time_data, i) = DfTime(df, i)
           /\ i < Len(ecg_data) => At(ecg_data, i) = DfEcg(df, i)

\* C23: pressing Play with the cursor at the end of the source leaves the
\* cursor at 0, the buffers empty and playback running.
C23_PlayAtEndRestarts ==
    [][(~is_playing /\ current_index >= DfLen(df) /\ TogglePlayback) =>
          /\ current_index' = 0
          /\ time_data' = <<>> /\ ecg_data' = <<>>
          /\ is_playing']_vars

\* C24: in uninterrupted playback data_increment is at least 1, a callback
\* is pending whenever playback is on before the end of the source, every
\* callback run while playing moves the cursor forward, and playback always
\* comes to its end: the cursor at the length of the source, is_playing
\* false and no callback pending.
C24_PlaybackTerminates ==
    /\ [](data_increment >= 1)
    /\ []((is_playing /\ current_index < DfLen(df)) => pending > 0)
    /\ [][(Tick /\ is_playing) => current_index' > current_index]_vars
    /\ is_playing ~> (~is_playing /\ current_index = DfLen(df) /\ pending = 0)

\* C24 witness: a source was played to its end after the slider was moved
C24_PlayedToEnd ==
    /\ ~is_playing /\ pending = 0
    /\ current_index = DfLen(df) /\ Len(ecg_data) = DfLen(df)
    /\ data_increment # InitialIncrement
    /\ current_index % data_increment # 0

\* C27: a load that fails leaves the source, the buffers, the cursor, the
\* total duration and the playing flag as they were.
C27_FailedLoadChangesNothing ==
    [][\A f \in disk :
          (~LoadSucceeds(f) /\ Becomes(browse_file(Self, f))) =>
              UNCHANGED <<df, time_data, ecg_data, current_index,
                          total_duration, is_playing>>]_vars

\* C25: in a detection cycle that accepts at least two R peaks the second
\* lies at least 200 samples after the first and inside the window, so the
\* Q, S and T searches around the first peak are never empty: Q, S and T
\* are the positions found in this window.  P is found in this window when
\* the first peak is more than 25 samples into it, and otherwise the cycle
\* leaves the P label as it was.
C25_OnlyPCanBeMissed ==
    [][(cycle'.ran /\ Len(cycle'.peaks) >= 2) =>
          LET p == cycle'.peaks[1]
              n == Len(WinData')
              at(i) == <<At(WinTime', i), At(WinData', i)>>
              pr == Max2(0, p - 100)..(p - 26)
              qr == Max2(0, p - 25)..(p - 1)
              sr == p..(Min2(n, p + 25) - 1)
              tr == (p + 80)..(p + 149)
          IN  /\ cycle'.peaks[2] - p >= 200 /\ cycle'.peaks[2] < n
              /\ qr # {} /\ labels'["Q"] = at(FirstMinIn(WinData', qr))
              /\ sr # {} /\ labels'["S"] = at(FirstMinIn(WinData', sr))
              /\ p + 150 < n /\ labels'["T"] = at(FirstMaxIn(WinData', tr))
              /\ p > 25 => (pr # {} /\ labels'["P"] = at(FirstMaxIn(WinData', pr)))
              /\ p <= 25 => (pr = {} /\ labels'["P"] = labels["P"])]_vars

\* C25 witness: a cycle accepted two peaks, the first of them so close to
\* the window start that the Q wave before it has left the window
C25_FirstPeakAtWindowStart ==
    /\ cycle.ran /\ Len(cycle.peaks) >= 2
    /\ cycle.peaks[1] < 10
    /\ labels["Q"] # None /\ labels["S"] # None /\ labels["T"] # None

\* C26: the component positions that are present are in the order
\* P.time < Q.time < R.time <= S.time < T.time.
C26_Before(a, b, strict) ==
    (labels[a] # None /\ labels[b] # None) =>
        IF strict THEN labels[a][1] < labels[b][1] ELSE labels[a][1] <= labels[b][1]
C26_ComponentsOrdered ==
    /\ C26_Before("P", "Q", TRUE)
    /\ C26_Before("Q", "R", TRUE)
    /\ C26_Before("R", "S", FALSE)
    /\ C26_Before("S", "T", TRUE)
    /\ C26_Before("P", "R", TRUE)
    /\ C26_Before("Q", "S", TRUE)
    /\ C26_Before("Q", "T", TRUE)
    /\ C26_Before("R", "T", TRUE)

====
